---------------------------- MODULE Spec2Model ----------------------------
(***************************************************************************)
(* A model of src/cookie.js: the cookie accessor, its value transport      *)
(* codec, the scramble registry and the prefix tag codec.                  *)
(*                                                                         *)
(* Strings are sequences of character codes (what charCodeAt returns), so  *)
(* that the rotations, the percent encoding and the regular expressions    *)
(* are computed character by character as the code computes them.  The     *)
(* alphabet is ASCII: encodeURIComponent's multi-byte UTF-8 escapes are    *)
(* outside the model.                                                      *)
(*                                                                         *)
(* JavaScript values are records [t |-> type, v |-> payload], the payload  *)
(* always a sequence of integers.  A call's outcome is such a value, or a  *)
(* thrown error (t = "throw" for the throw statement of line 426,          *)
(* "TypeError" and "URIError" for the errors the runtime raises).          *)
(*                                                                         *)
(* The cookie jar (document.cookie) is one path/domain scope: a sequence   *)
(* of name/value entries in creation order.  The path, domain and secure   *)
(* attributes of lines 348-384 only format the attribute string and are    *)
(* not modelled.                                                           *)
(***************************************************************************)
EXTENDS Integers, Sequences, FiniteSets, TLC

VARIABLES
    jar,               \* document.cookie: sequence of [name, value] entries
    scramblers,        \* cookie.scramblers: key -> [encode, decode]
    scramblerDefault,  \* cookie.scramblerDefault
    last,              \* the last call of the public interface and its outcome
    pc,                \* position of a pure-function run ("api" in Spec)
    x,                 \* argument of a pure-function run
    y                  \* result of a pure-function run

vars == <<jar, scramblers, scramblerDefault, last, pc, x, y>>

-----------------------------------------------------------------------------
(* Bounds of the pure-function specifications. *)

MaxPrefixLen == 4
MaxCodecLen == 3
MaxRotLen == 2

-----------------------------------------------------------------------------
(* Strings *)

RECURSIVE Concat(_)
Concat(seqs) ==
    IF seqs = <<>> THEN <<>> ELSE Head(seqs) \o Concat(Tail(seqs))

StringsUpTo(alphabet, n) == UNION {[1..k -> alphabet] : k \in 0..n}

\* String.prototype.substring(from, to) for 0 <= from <= to, zero-based, to exclusive
Substring(s, from, to) ==
    SubSeq(s, from + 1, IF to > Len(s) THEN Len(s) ELSE to)

\* String.prototype.substring(from)
SubstringFrom(s, from) == SubSeq(s, from + 1, Len(s))

-----------------------------------------------------------------------------
(* Prefix tag codec, lines 19-76 *)

\* what "." of a regular expression matches: anything but a line terminator
\* (LF 10, CR 13; U+2028 and U+2029 are outside the alphabet)
RegexDot(c) == c \notin {10, 13}

\* /^\[(.+?)\]/ : the index of the "]" that ends the match, 0 when there is
\* no match.  "[" (91) must be at position 0; the lazy group takes at least
\* one character, so the closing "]" (93) is the first one at or after the
\* third character, and every character before it must be matched by ".".
PrefixMatchEnd(s) ==
    IF Len(s) >= 3 /\ s[1] = 91
       /\ \E k \in 3..Len(s) :
            s[k] = 93 /\ \A j \in 2..(k - 1) : RegexDot(s[j])
    THEN CHOOSE k \in 3..Len(s) :
            /\ s[k] = 93
            /\ \A j \in 3..(k - 1) : s[j] # 93
    ELSE 0

scramblePrefixGet(s) ==
    LET m == PrefixMatchEnd(s)
    IN  IF m > 0 THEN SubSeq(s, 2, m - 1) ELSE <<>>

scramblePrefixAdd(prefix, value) == <<91>> \o prefix \o <<93>> \o value

scramblePrefixRemove(s) ==
    LET m == PrefixMatchEnd(s)
    IN  IF m > 0 THEN SubSeq(s, m + 1, Len(s)) ELSE s

-----------------------------------------------------------------------------
(* Text rotation primitives, lines 86-120 and 163-174 *)

IsLetter(n) == (n >= 65 /\ n <= 90) \/ (n >= 97 /\ n <= 122)
IsDigit(n) == n >= 48 /\ n <= 57

\* the replacement function of line 89, its lower-case boundary one too high
rot13CharOffByOne(n) ==
    IF n > 110 \/ (n < 97 /\ n > 77) THEN n - 13 ELSE n + 13

\* the replacement function of line 89
rot13Char(n) ==
    IF n > 109 \/ (n < 97 /\ n > 77) THEN n - 13 ELSE n + 13

rot13(str) ==
    [i \in 1..Len(str) |-> IF IsLetter(str[i]) THEN rot13Char(str[i]) ELSE str[i]]

\* digit -> digit, lines 163-174
rot5matrix ==
    (0 :> 5) @@ (1 :> 6) @@ (2 :> 7) @@ (3 :> 8) @@ (4 :> 9) @@
    (5 :> 0) @@ (6 :> 1) @@ (7 :> 2) @@ (8 :> 3) @@ (9 :> 4)

rot5replace(a) ==
    IF (a - 48) \in DOMAIN rot5matrix THEN 48 + rot5matrix[a - 48] ELSE a

rot5(str) ==
    [i \in 1..Len(str) |-> IF IsDigit(str[i]) THEN rot5replace(str[i]) ELSE str[i]]

-----------------------------------------------------------------------------
(* Value transport codec, lines 129-154 *)

\* the characters encodeURIComponent leaves alone: A-Z a-z 0-9 - _ . ! ~ * ' ( )
UriUnreserved(c) ==
    IsLetter(c) \/ IsDigit(c) \/ c \in {45, 95, 46, 33, 126, 42, 39, 40, 41}

HexDigit(d) == IF d < 10 THEN 48 + d ELSE 55 + d

IsHex(c) == IsDigit(c) \/ (c >= 65 /\ c <= 70) \/ (c >= 97 /\ c <= 102)

HexValue(c) ==
    IF IsDigit(c) THEN c - 48 ELSE IF c <= 70 THEN c - 55 ELSE c - 87

encodeURIComponent(s) ==
    Concat([i \in 1..Len(s) |->
              IF UriUnreserved(s[i]) THEN <<s[i]>>
              ELSE <<37, HexDigit(s[i] \div 16), HexDigit(s[i] % 16)>>])

\* decodeURIComponent from position i on: [ok, val]; not ok is a URIError
\* (a "%" that two hex digits do not follow, or a byte outside ASCII)
RECURSIVE DecodeFrom(_, _)
DecodeFrom(s, i) ==
    IF i > Len(s) THEN [ok |-> TRUE, val |-> <<>>]
    ELSE IF s[i] # 37 THEN
        LET r == DecodeFrom(s, i + 1)
        IN  [ok |-> r.ok, val |-> <<s[i]>> \o r.val]
    ELSE IF i + 2 <= Len(s) /\ IsHex(s[i + 1]) /\ IsHex(s[i + 2])
            /\ 16 * HexValue(s[i + 1]) + HexValue(s[i + 2]) < 128 THEN
        LET r == DecodeFrom(s, i + 3)
        IN  [ok |-> r.ok,
             val |-> <<16 * HexValue(s[i + 1]) + HexValue(s[i + 2])>> \o r.val]
    ELSE [ok |-> FALSE, val |-> <<>>]

decodeURIComponent(s) == DecodeFrom(s, 1)

\* the escapes line 138 matches, with "%25" (the percent sign) added to them
AllowListedWithPercent ==
    {<<37, 55, 66>>, <<37, 55, 68>>, <<37, 51, 65>>,
     <<37, 53, 66>>, <<37, 53, 68>>, <<37, 50, 53>>}

\* the escapes of "{", "}", ":", "[", "]" that line 138 matches
AllowListed == {<<37, 55, 66>>, <<37, 55, 68>>, <<37, 51, 65>>,
                <<37, 53, 66>>, <<37, 53, 68>>}

\* String.replace with the global expression of line 138, from position i on
RECURSIVE ReplaceAllowListed(_, _)
ReplaceAllowListed(s, i) ==
    IF i > Len(s) THEN <<>>
    ELSE IF i + 2 <= Len(s) /\ SubSeq(s, i, i + 2) \in AllowListed THEN
        decodeURIComponent(SubSeq(s, i, i + 2)).val \o ReplaceAllowListed(s, i + 3)
    ELSE <<s[i]>> \o ReplaceAllowListed(s, i + 1)

encodeValue(value) == ReplaceAllowListed(encodeURIComponent(value), 1)

decodeValue(value) == decodeURIComponent(value)

-----------------------------------------------------------------------------
(* JavaScript values *)

Undefined == [t |-> "undefined", v |-> <<>>]
Null == [t |-> "null", v |-> <<>>]
True == [t |-> "boolean", v |-> <<1>>]
Str(s) == [t |-> "string", v |-> s]
Num(n) == [t |-> "number", v |-> <<n>>]
Date(day) == [t |-> "date", v |-> <<day>>]    \* a Date, in days from now
Json(text) == [t |-> "json", v |-> text]      \* a parsed JSON value, by its text
EmptyObject == Json(<<123, 125>>)             \* {}

Thrown(kind) == [t |-> kind, v |-> <<>>]
IsThrown(r) == r.t \in {"throw", "TypeError", "URIError"}

Truthy(val) ==
    CASE val.t = "boolean" -> val.v = <<1>>
      [] val.t = "string" -> val.v # <<>>
      [] val.t = "number" -> val.v # <<0>>
      [] val.t \in {"date", "json"} -> TRUE
      [] OTHER -> FALSE

\* the property key a value is converted to, and its text in a concatenation
ToText(val) ==
    IF val.t = "boolean" THEN <<116, 114, 117, 101>>    \* "true"
    ELSE val.v

\* the options object: options || {} of line 298
NoOptions == [expires |-> Undefined, scramble |-> Undefined]

-----------------------------------------------------------------------------
(* Scramble registry, lines 634-669 *)

S_rot13 == <<114, 111, 116, 49, 51>>            \* "rot13"
S_rot13n == <<114, 111, 116, 49, 51, 110>>      \* "rot13n"
S_c1 == <<99, 49>>                              \* "c1", a caller's algorithm
S_constructor == <<99, 111, 110, 115, 116, 114, 117, 99, 116, 111, 114>>

\* cookie.scramblers is an object literal: a key it does not hold is looked up
\* in Object.prototype, where "constructor" (and toString, valueOf, ...) is
\* found: a truthy value with neither encode nor decode.
ObjectPrototypeKeys == {S_constructor}

\* the letters shifted by k within their case: a caller's algorithm
Caesar(text, k) ==
    [i \in 1..Len(text) |->
        IF text[i] >= 97 /\ text[i] <= 122 THEN 97 + ((text[i] - 97 + k) % 26)
        ELSE IF text[i] >= 65 /\ text[i] <= 90 THEN 65 + ((text[i] - 65 + k) % 26)
        ELSE text[i]]

\* calling one of the functions a registry entry holds
Call(f, text) ==
    CASE f = "rot13.encode" -> rot13(text)
      [] f = "rot13.decode" -> rot13(text)
      [] f = "rot13n.encode" -> rot5(rot13(text))
      [] f = "rot13n.decode" -> rot5(rot13(text))
      [] f = "caller.encode" -> Caesar(text, 1)
      [] f = "caller.decode" -> Caesar(text, 25)

BuiltinScramblers ==
    (S_rot13 :> [encode |-> "rot13.encode", decode |-> "rot13.decode"]) @@
    (S_rot13n :> [encode |-> "rot13n.encode", decode |-> "rot13n.decode"])

CallerScrambler == [encode |-> "caller.encode", decode |-> "caller.decode"]

\* whether self.scramblers[key] is truthy
HasScrambler(reg, key) == key \in DOMAIN reg \/ key \in ObjectPrototypeKeys

\* self.scramblers[key].encode / .decode; "undefined" on an inherited value
Method(reg, key, which) ==
    IF key \in DOMAIN reg THEN reg[key][which] ELSE "undefined"

-----------------------------------------------------------------------------
(* document.cookie *)

\* reading document.cookie: "name=value; name=value"
RECURSIVE DocumentCookie(_)
DocumentCookie(doc) ==
    IF doc = <<>> THEN <<>>
    ELSE Head(doc).name \o <<61>> \o Head(doc).value
         \o (IF Len(doc) > 1 THEN <<59, 32>> ELSE <<>>)
         \o DocumentCookie(Tail(doc))

\* assigning "name=value; expires=..." to document.cookie: an expiry in the
\* past removes the entry, anything else creates it or replaces its value
DocumentCookieAssign(doc, name, value, expires) ==
    IF expires # <<>> /\ expires[1] < 0 THEN
        SelectSeq(doc, LAMBDA e : e.name # name)
    ELSE IF \E i \in 1..Len(doc) : doc[i].name = name THEN
        [i \in 1..Len(doc) |->
            IF doc[i].name = name THEN [name |-> name, value |-> value]
            ELSE doc[i]]
    ELSE Append(doc, [name |-> name, value |-> value])

\* String.split(';')
RECURSIVE Split(_, _)
Split(s, acc) ==
    IF s = <<>> THEN <<acc>>
    ELSE IF Head(s) = 59 THEN <<acc>> \o Split(Tail(s), <<>>)
    ELSE Split(Tail(s), Append(acc, Head(s)))

IsSpace(c) == c \in {9, 10, 11, 12, 13, 32, 160}

\* lines 184-198
RECURSIVE trim(_)
trim(str) ==
    IF str = <<>> THEN str
    ELSE IF IsSpace(Head(str)) THEN trim(Tail(str))
    ELSE IF IsSpace(str[Len(str)]) THEN trim(SubSeq(str, 1, Len(str) - 1))
    ELSE str

-----------------------------------------------------------------------------
(* JSON.parse, for getJson: whether a text is JSON.  The texts of the model  *)
(* are made of letters, digits, brackets and punctuation, so the grammar is  *)
(* numbers and arrays; string, object and literal texts cannot be spelled.   *)

\* the position after the digits that start at i
RECURSIVE DigitsEnd(_, _)
DigitsEnd(s, i) ==
    IF i <= Len(s) /\ IsDigit(s[i]) THEN DigitsEnd(s, i + 1) ELSE i

\* the position after the JSON value that starts at i, 0 when there is none
RECURSIVE JsonValueEnd(_, _)
RECURSIVE JsonItemsEnd(_, _)
JsonValueEnd(s, i) ==
    IF i > Len(s) THEN 0
    ELSE IF s[i] = 48 THEN i + 1
    ELSE IF IsDigit(s[i]) THEN DigitsEnd(s, i)
    ELSE IF s[i] = 91 THEN
        IF i + 1 <= Len(s) /\ s[i + 1] = 93 THEN i + 2
        ELSE JsonItemsEnd(s, i + 1)
    ELSE 0

\* after "[" or ",": a value, then "]" or "," and more
JsonItemsEnd(s, i) ==
    LET e == JsonValueEnd(s, i)
    IN  IF e = 0 \/ e > Len(s) THEN 0
        ELSE IF s[e] = 93 THEN e + 1
        ELSE IF s[e] = 44 THEN JsonItemsEnd(s, e + 1)
        ELSE 0

IsJsonText(s) == JsonValueEnd(s, 1) = Len(s) + 1

-----------------------------------------------------------------------------
(* The cookie function, lines 265-447.  self is [scramblers, scramblerDefault], *)
(* doc the cookie jar.  The result is the jar and the caller's options object   *)
(* after the call, what was assigned to document.cookie, and the outcome.       *)

\* lines 414-437, returning the value as it is stored when its prefix names
\* no scrambler
UnscrambleLenient(self, cookieValue) ==
    LET found == scramblePrefixGet(cookieValue)
        prefix == IF found = <<>> THEN S_rot13 ELSE found
    IN  IF ~HasScrambler(self.scramblers, prefix) THEN Str(cookieValue)
        ELSE IF Method(self.scramblers, prefix, "decode") = "undefined"
        THEN Thrown("TypeError")
        ELSE Str(Call(Method(self.scramblers, prefix, "decode"),
                      scramblePrefixRemove(cookieValue)))

\* lines 414-437, falling back to the default scrambler, not to rot13, when
\* the value has no prefix
UnscrambleWithDefault(self, cookieValue) ==
    LET found == scramblePrefixGet(cookieValue)
        prefix == IF found = <<>> THEN self.scramblerDefault ELSE found
    IN  IF ~HasScrambler(self.scramblers, prefix) THEN Thrown("throw")
        ELSE IF Method(self.scramblers, prefix, "decode") = "undefined"
        THEN Thrown("TypeError")
        ELSE Str(Call(Method(self.scramblers, prefix, "decode"),
                      scramblePrefixRemove(cookieValue)))

\* lines 414-437: unscrambling the value of the entry found
Unscramble(self, cookieValue) ==
    LET found == scramblePrefixGet(cookieValue)
        prefix == IF found = <<>> THEN S_rot13 ELSE found
    IN  IF ~HasScrambler(self.scramblers, prefix) THEN Thrown("throw")
        ELSE IF Method(self.scramblers, prefix, "decode") = "undefined"
        THEN Thrown("TypeError")
        ELSE Str(Call(Method(self.scramblers, prefix, "decode"),
                      scramblePrefixRemove(cookieValue)))

\* line 408 comparing the name alone, without the "=" after it
NameMatchesWithoutEquals(c, name) == Substring(c, 0, Len(name)) = name

\* line 408: does this cookie string begin with the name we want?
NameMatches(c, name) == Substring(c, 0, Len(name) + 1) = name \o <<61>>

\* lines 402-442: the loop over the entries of document.cookie
RECURSIVE ReadLoop(_, _, _, _, _)
ReadLoop(self, cookies, i, name, options) ==
    IF i > Len(cookies) THEN Null
    ELSE
        LET c == trim(cookies[i])
        IN  IF NameMatches(c, name) THEN
                LET d == decodeValue(SubstringFrom(c, Len(name) + 1))
                IN  IF ~d.ok THEN Thrown("URIError")
                    ELSE IF Truthy(options.scramble) THEN Unscramble(self, d.val)
                    ELSE Str(d.val)
            ELSE ReadLoop(self, cookies, i + 1, name, options)

\* lines 392-445
ReadMode(doc, self, name, options) ==
    [jar |-> doc, options |-> options, assigned |-> <<>>,
     ret |-> IF DocumentCookie(doc) # <<>>
             THEN ReadLoop(self, Split(DocumentCookie(doc), <<>>), 1, name, options)
             ELSE Null]

\* lines 329-346 taking only a positive number of days for an expiry
ExpiresAttributePositiveOnly(options) ==
    IF options.expires.t \in {"number", "date"} /\ options.expires.v[1] > 0
    THEN options.expires.v
    ELSE <<>>

\* lines 329-346: the expires attribute, <<days from now>>, <<>> for none
ExpiresAttribute(options) ==
    IF Truthy(options.expires) /\ options.expires.t \in {"number", "date"}
    THEN options.expires.v
    ELSE <<>>

\* lines 302-388
WriteMode(doc, self, name, value, options) ==
    LET v1 == IF value = Null THEN <<>> ELSE value.v
        o1 == IF value = Null THEN [options EXCEPT !.expires = Num(-1)]
              ELSE options
        scramble == Truthy(o1.scramble)
        o2 == IF scramble /\ ~HasScrambler(self.scramblers, ToText(o1.scramble))
              THEN [o1 EXCEPT !.scramble = Str(self.scramblerDefault)]
              ELSE o1
        key == ToText(o2.scramble)
        encode == Method(self.scramblers, key, "encode")
        v2 == IF scramble THEN scramblePrefixAdd(key, Call(encode, v1)) ELSE v1
    IN  IF scramble /\ encode = "undefined" THEN
            [jar |-> doc, options |-> o2, assigned |-> <<>>,
             ret |-> Thrown("TypeError")]
        ELSE
            [jar |-> DocumentCookieAssign(doc, name, encodeValue(v2),
                                          ExpiresAttribute(o2)),
             options |-> o2,
             assigned |-> <<[name |-> name, value |-> encodeValue(v2),
                             expires |-> ExpiresAttribute(o2)]>>,
             ret |-> Str(v2)]

cookie(doc, self, name, value, options) ==
    IF value # Undefined
    THEN WriteMode(doc, self, name, value, options)
    ELSE ReadMode(doc, self, name, options)

-----------------------------------------------------------------------------
(* The public interface, lines 452-593 *)

get(doc, self, name, options) ==
    LET r == cookie(doc, self, name, Undefined, options)
    IN  [r EXCEPT !.ret = IF r.ret = Null THEN Str(<<>>) ELSE r.ret]

\* lines 496-498 returning the caller's value, not the value stored
setReturnsInput(doc, self, name, value, options) ==
    LET r == cookie(doc, self, name, value, options)
    IN  [r EXCEPT !.ret = IF IsThrown(r.ret) \/ value = Null THEN r.ret ELSE value]

set(doc, self, name, value, options) == cookie(doc, self, name, value, options)

getJson(doc, self, name, options) ==
    LET r == cookie(doc, self, name, Undefined, options)
    IN  [r EXCEPT !.ret =
            IF r.ret = Null THEN EmptyObject
            ELSE IF IsThrown(r.ret) THEN r.ret
            ELSE IF IsJsonText(r.ret.v) THEN Json(r.ret.v)
            ELSE EmptyObject]

exists(doc, self, name) ==
    LET r == cookie(doc, self, name, Undefined, NoOptions)
    IN  [r EXCEPT !.ret = IF IsThrown(r.ret) THEN r.ret
                          ELSE IF r.ret # Null THEN True
                          ELSE [t |-> "boolean", v |-> <<0>>]]

\* $.extend({}, options, {expires: -1}) is a copy: the caller's object is
\* not the one the cookie function changes
deleteCookie(doc, self, name, options) ==
    LET r == cookie(doc, self, name, Str(<<>>),
                    [options EXCEPT !.expires = Num(-1)])
    IN  [r EXCEPT !.options = options]

-----------------------------------------------------------------------------
(* The calls the model makes *)

N_a == <<97>>                 \* "a"
N_aba == <<97, 98, 97>>       \* "aba": starts with, ends with and contains "a"
CookieNames == {N_a, N_aba}

V_a1 == <<97, 49, 59>>        \* "a1;"
V_json == <<91, 49, 93>>      \* "[1]"
CookieValues == {<<>>, V_a1, V_json}

ScrambleOptions == {Undefined, True, Str(S_rot13), Str(S_c1), Str(S_constructor)}
ExpiresOptions == {Undefined, Num(-1), Num(1)}

\* the options objects of a write: an expiry, a scramble option, or both
OptionsObjects ==
    {[expires |-> e, scramble |-> Undefined] : e \in ExpiresOptions}
    \cup {[expires |-> Undefined, scramble |-> s] : s \in ScrambleOptions}
    \cup {[expires |-> e, scramble |-> True] : e \in ExpiresOptions}

\* the options objects of a read
ReadOptions ==
    {[expires |-> Undefined, scramble |-> s] :
        s \in {Undefined, True, Str(S_rot13)}}

\* every write to "a"; the neighbour "aba" is written with one value
SetInputs ==
    ({N_a} \X ({Str(v) : v \in CookieValues} \cup {Null}) \X OptionsObjects)
    \cup ({N_aba} \X {Str(V_a1)} \X {NoOptions})

DeleteInputs ==
    CookieNames \X {NoOptions, [NoOptions EXCEPT !.scramble = True]}

ScramblerKeys == {S_rot13, S_rot13n, S_c1}

Self == [scramblers |-> scramblers, scramblerDefault |-> scramblerDefault]

\* observing the jar: is there an entry of this name, and its stored value
HasEntry(doc, name) == \E i \in 1..Len(doc) : doc[i].name = name
EntryValue(doc, name) == doc[CHOOSE i \in 1..Len(doc) : doc[i].name = name].value

\* a record of the last operation: the call and its arguments, whether the
\* entry existed before it, the caller's options object after it, what it
\* assigned to document.cookie, and its outcome
Operation(op, name, value, options, had, r) ==
    [op |-> op, name |-> name, value |-> value, options |-> options,
     had |-> had, after |-> r.options, assigned |-> r.assigned, ret |-> r.ret]

NoCall ==
    Operation("none", <<>>, Undefined, NoOptions, FALSE,
              [options |-> NoOptions, assigned |-> <<>>, ret |-> Undefined])

Called(op, name, value, options, r) ==
    /\ last' = Operation(op, name, value, options, HasEntry(jar, name), r)
    /\ jar' = r.jar
    /\ UNCHANGED <<scramblers, scramblerDefault, pc, x, y>>

Init ==
    /\ jar = <<>>
    /\ scramblers = BuiltinScramblers
    /\ scramblerDefault = S_rot13n
    /\ last = NoCall
    /\ pc = "api"
    /\ x = <<>>
    /\ y = <<>>

Get(name, options) ==
    /\ pc = "api"
    /\ Called("get", name, Undefined, options, get(jar, Self, name, options))

GetJson(name, options) ==
    /\ pc = "api"
    /\ Called("getJson", name, Undefined, options,
              getJson(jar, Self, name, options))

Set(name, value, options) ==
    /\ pc = "api"
    /\ Called("set", name, value, options, set(jar, Self, name, value, options))

Exists(name) ==
    /\ pc = "api"
    /\ Called("exists", name, Undefined, NoOptions, exists(jar, Self, name))

DeleteCookie(name, options) ==
    /\ pc = "api"
    /\ Called("deleteCookie", name, Undefined, options,
              deleteCookie(jar, Self, name, options))

\* cookie.scramblers[key] = {encode: ..., decode: ...}, lines 617-631
RegisterScrambler(key, entry) ==
    /\ pc = "api"
    /\ scramblers' = [k \in DOMAIN scramblers \cup {key} |->
                        IF k = key THEN entry ELSE scramblers[k]]
    /\ last' = [NoCall EXCEPT !.op = "scramblers", !.name = key]
    /\ UNCHANGED <<jar, scramblerDefault, pc, x, y>>

\* cookie.scramblerDefault = key: a plain property, assigned without a check
AssignScramblerDefault(key) ==
    /\ pc = "api"
    /\ scramblerDefault' = key
    /\ last' = [NoCall EXCEPT !.op = "scramblerDefault", !.name = key]
    /\ UNCHANGED <<jar, scramblers, pc, x, y>>

Next ==
    \/ \E n \in CookieNames, o \in ReadOptions : Get(n, o)
    \/ \E n \in CookieNames, o \in {NoOptions, [NoOptions EXCEPT !.scramble = True]} :
            GetJson(n, o)
    \/ \E i \in SetInputs : Set(i[1], i[2], i[3])
    \/ \E n \in CookieNames : Exists(n)
    \/ \E i \in DeleteInputs : DeleteCookie(i[1], i[2])
    \/ RegisterScrambler(S_c1, CallerScrambler)
    \/ \E k \in ScramblerKeys : AssignScramblerDefault(k)

Spec == Init /\ [][Next]_vars

-----------------------------------------------------------------------------
(* Runs of the pure functions: the argument x is drawn at the start, each   *)
(* action applies one function to it, pc names the function applied last.   *)

PureInit(inputs) ==
    /\ jar = <<>>
    /\ scramblers = BuiltinScramblers
    /\ scramblerDefault = S_rot13n
    /\ last = NoCall
    /\ pc = "start"
    /\ x \in inputs
    /\ y = <<>>

PureStep(from, to, result) ==
    /\ pc = from
    /\ pc' = to
    /\ y' = result
    /\ UNCHANGED <<jar, scramblers, scramblerDefault, last, x>>

\* "[", "]", "a" and "1"
PrefixAlphabet == {91, 93, 97, 49}
PrefixInputs == StringsUpTo(PrefixAlphabet, MaxPrefixLen)

RunPrefixGet == PureStep("start", "scramblePrefixGet", scramblePrefixGet(x))

RunPrefixRemove ==
    PureStep("start", "scramblePrefixRemove", scramblePrefixRemove(x))

InitPrefix == PureInit(PrefixInputs)
NextPrefix == RunPrefixGet \/ RunPrefixRemove
SpecPrefix == InitPrefix /\ [][NextPrefix]_vars

\* 7 B a { } : [ ] % ; = , and the space
CodecAlphabet == {55, 66, 97, 123, 125, 58, 91, 93, 37, 59, 61, 44, 32}
CodecInputs == StringsUpTo(CodecAlphabet, MaxCodecLen)

RunEncodeValue == PureStep("start", "encodeValue", encodeValue(x))

RunDecodeValue ==
    PureStep("encodeValue",
             IF decodeValue(y).ok THEN "decodeValue" ELSE "URIError",
             decodeValue(y).val)

InitCodec == PureInit(CodecInputs)
NextCodec == RunEncodeValue \/ RunDecodeValue
SpecCodec == InitCodec /\ [][NextCodec]_vars

\* A M N Z a m n z 0 4 5 9 -
RotAlphabet == {65, 77, 78, 90, 97, 109, 110, 122, 48, 52, 53, 57, 45}
PrintableAscii == 32..126
T_Secret123 == <<83, 101, 99, 114, 101, 116, 49, 50, 51>>
T_Frperg678 == <<70, 114, 112, 101, 114, 103, 54, 55, 56>>
RotInputs ==
    StringsUpTo(PrintableAscii, 1) \cup StringsUpTo(RotAlphabet, MaxRotLen)
    \cup {T_Secret123}

RunScramblerEncode(k) ==
    PureStep("start", BuiltinScramblers[k].encode,
             Call(BuiltinScramblers[k].encode, x))

RunScramblerDecode(k) ==
    PureStep(BuiltinScramblers[k].encode, BuiltinScramblers[k].decode,
             Call(BuiltinScramblers[k].decode, y))

InitRot == PureInit(RotInputs)
NextRot ==
    \/ \E k \in DOMAIN BuiltinScramblers : RunScramblerEncode(k)
    \/ \E k \in DOMAIN BuiltinScramblers : RunScramblerDecode(k)
SpecRot == InitRot /\ [][NextRot]_vars

-----------------------------------------------------------------------------
(* Claims about the pure functions *)

\* C8: decodeValue(encodeValue(x)) = x for every string over the codec
\* alphabet, and putting the five allow-listed characters back as literals
\* does not change what decodeValue returns
C8_TransportRoundTrip ==
    /\ pc = "encodeValue" =>
          /\ decodeValue(y).ok
          /\ decodeValue(y) = decodeURIComponent(encodeURIComponent(x))
    /\ pc \in {"decodeValue", "URIError"} => pc = "decodeValue" /\ y = x

\* the literal text "%7B" has been encoded and decoded back
C8_Witness == pc = "decodeValue" /\ x = <<37, 55, 66>> /\ y = x

\* C9: rot13 shifts each letter by 13 within its case, rot13n also maps each
\* digit d to (d + 5) mod 10, other characters pass, and decode(encode(x)) = x
C9_ScramblerRoundTrip ==
    LET Letters(c) ==
            IF c >= 65 /\ c <= 90 THEN 65 + ((c - 65 + 13) % 26)
            ELSE IF c >= 97 /\ c <= 122 THEN 97 + ((c - 97 + 13) % 26)
            ELSE c
        Digits(c) ==
            IF c >= 48 /\ c <= 57 THEN 48 + ((c - 48 + 5) % 10) ELSE c
    IN  /\ pc = "rot13.encode" => y = [i \in 1..Len(x) |-> Letters(x[i])]
        /\ pc = "rot13n.encode" =>
              y = [i \in 1..Len(x) |-> Digits(Letters(x[i]))]
        /\ pc = "rot13n.encode" /\ x = T_Secret123 => y = T_Frperg678
        /\ pc \in {"rot13.decode", "rot13n.decode"} => y = x

\* "Secret123" has been scrambled with rot13n and unscrambled
C9_Witness == pc = "rot13n.decode" /\ x = T_Secret123 /\ y = x

\* C10: scramblePrefixGet returns the text between a "[" at position 0 and
\* the first "]" after it, or the empty string; scramblePrefixRemove removes
\* exactly that prefix, and nothing when the tag is empty or missing
C10_TagUpToFirstBracket ==
    LET Tagged == x # <<>> /\ x[1] = 91 /\ \E k \in 2..Len(x) : x[k] = 93
        First == CHOOSE k \in 2..Len(x) :
                    x[k] = 93 /\ \A j \in 2..(k - 1) : x[j] # 93
        Tag == IF Tagged THEN SubSeq(x, 2, First - 1) ELSE <<>>
    IN  /\ pc = "scramblePrefixGet" =>
              y = Tag /\ \A i \in 1..Len(y) : y[i] # 93
        /\ pc = "scramblePrefixRemove" =>
              y = IF Tag # <<>> THEN SubSeq(x, First + 1, Len(x)) ELSE x

-----------------------------------------------------------------------------
(* Claims about the cookie accessor.  They are stated about the last        *)
(* operation, in the state it leaves: the jar after it, the registry and    *)
(* the default it ran with (an assignment to either is an operation too).   *)

\* the stored value of an entry, transport-decoded
StoredValue(name) == decodeValue(EntryValue(jar, name)).val

\* the string a write works on: the empty string for null
Payload(value) == IF value = Null THEN <<>> ELSE value.v

TruthyScrambleOptions == {s \in ScrambleOptions : Truthy(s)}

\* C1: set(n, x, {scramble: s}) followed by get(n, {scramble: t}) returns x,
\* for every truthy s (true, a registered name, an unregistered name) and
\* every truthy t
C1_ScrambledRoundTrip ==
    (/\ last.op = "set"
     /\ last.value.t = "string"
     /\ Truthy(last.options.scramble)
     /\ last.options.expires = Undefined)
    => \A s \in TruthyScrambleOptions :
          get(jar, Self, last.name, [NoOptions EXCEPT !.scramble = s]).ret
              = last.value

C3_UnregisteredFallsBack ==
    (/\ last.op = "set"
     /\ Truthy(last.options.scramble)
     /\ ToText(last.options.scramble) \notin DOMAIN scramblers)
    => /\ ~IsThrown(last.ret)
       /\ last.ret = Str(scramblePrefixAdd(scramblerDefault,
                        Call(scramblers[scramblerDefault].encode,
                             Payload(last.value))))

\* the entry holds a value whose prefix tag is no key of the registry
UnknownTag(doc, reg, name) ==
    /\ HasEntry(doc, name)
    /\ scramblePrefixGet(decodeValue(EntryValue(doc, name)).val) # <<>>
    /\ scramblePrefixGet(decodeValue(EntryValue(doc, name)).val) \notin DOMAIN reg

\* C4: a read with the scramble option of a value whose prefix tag is not in
\* the registry raises an error (it returns neither text nor the not-found
\* result) and leaves the store and the registry unchanged
C4_UnknownTagThrows ==
    [][(/\ last' # last
        /\ last'.op \in {"get", "getJson"}
        /\ Truthy(last'.options.scramble)
        /\ UnknownTag(jar, scramblers, last'.name))
       => /\ IsThrown(last'.ret)
          /\ UNCHANGED <<jar, scramblers, scramblerDefault>>]_vars

\* get with the scramble option has thrown on the stored value "[1]"
C4_Witness ==
    /\ last.op = "get"
    /\ Truthy(last.options.scramble)
    /\ UnknownTag(jar, scramblers, last.name)
    /\ StoredValue(last.name) = V_json
    /\ last.ret = Thrown("throw")

\* the payloads whose rot13 image the model stores without a tag
LegacyPayloads == {rot13(v) : v \in CookieValues}

C7_MissingIsSentinel ==
    /\ (last.op \in {"get", "getJson", "exists"} /\ ~HasEntry(jar, last.name))
       => last.ret = CASE last.op = "get" -> Str(<<>>)
                       [] last.op = "getJson" -> EmptyObject
                       [] last.op = "exists" -> [t |-> "boolean", v |-> <<0>>]
    /\ (last.op = "exists" /\ HasEntry(jar, last.name)) => last.ret = True

\* get("a") with the scramble option has returned the empty string while the
\* only entry is "aba"
C7_Witness ==
    /\ last.op = "get"
    /\ last.name = N_a
    /\ Truthy(last.options.scramble)
    /\ ~HasEntry(jar, N_a)
    /\ HasEntry(jar, N_aba)
    /\ last.ret = Str(<<>>)

\* C11: whatever registrations and assignments to the default were made, the
\* default algorithm name is a key of the registry whose entry has an encode
\* and a decode function, so a write with scramble: true, or with a name that
\* is not registered, resolves an encoder and does not raise
C11_DefaultIsRegistered ==
    /\ scramblerDefault \in DOMAIN scramblers
    /\ Method(scramblers, scramblerDefault, "encode") # "undefined"
    /\ Method(scramblers, scramblerDefault, "decode") # "undefined"
    /\ \A s \in {True, Str(S_c1)} :
          ~IsThrown(set(jar, Self, N_a, Str(V_a1),
                        [NoOptions EXCEPT !.scramble = s]).ret)

\* C12: a write or a removal leaves the caller's options object as it was
\* (expires and scramble), so a later write that reuses the object stores
\* what it would store with a fresh copy of the original options.  A call
\* without an options object (options || {} of line 298 makes one the caller
\* never sees) is left out.
C12_OptionsUnchanged ==
    (last.op \in {"set", "deleteCookie"} /\ last.options # NoOptions) =>
        /\ last.after.expires = last.options.expires
        /\ last.after.scramble = last.options.scramble
        /\ \A n2 \in CookieNames :
              set(jar, Self, n2, Str(V_a1), last.after).jar
                  = set(jar, Self, n2, Str(V_a1), last.options).jar

=============================================================================
